---- MODULE Spec2Model ----
(***************************************************************************)
(* State-machine model of the flash-banana-mcp HTTP server                 *)
(* (src/unnamed/part_000, the express application, and                     *)
(* src/mcp-js/services/geminiImage.js, the two service clients).           *)
(*                                                                         *)
(* Two specifications share the variables:                                 *)
(*   Spec         the whole server: a request enters through the global    *)
(*                middleware chain (rateLimit), GET /health is answered,   *)
(*                POST /process goes through upload.single('image') and    *)
(*                then the route handler;                                  *)
(*   HandlerSpec  the POST /process route handler (lines 41-76) run on     *)
(*                requests as upload.single('image') hands them over once  *)
(*                a file has been stored (req.file set, the file staged    *)
(*                in STORAGE_DIR) or no file part was sent.                *)
(* JavaScript runs each callback to completion, so one action is the code  *)
(* between two suspension points (await / callback) of one request.        *)
(***************************************************************************)
EXTENDS Integers, Sequences, FiniteSets, TLC

\* ------------------------------------------------------------------ bounds
NReq == 2
MaxClock == 2
MaxLen == 2

\* -------------------------------------------------------- program constants
RateLimitMax == 60

Reqs == 1 .. NReq

\* ------------------------------------------------------------------ strings
\* A string is a sequence of characters; " " is the only whitespace character.
Chars == {" ", "x"}

Strings == UNION {[1 .. n -> Chars] : n \in 0 .. MaxLen}

RECURSIVE TrimStart(_)
TrimStart(s) == IF s # <<>> /\ Head(s) = " " THEN TrimStart(Tail(s)) ELSE s

RECURSIVE TrimEnd(_)
TrimEnd(s) ==
    IF s # <<>> /\ s[Len(s)] = " " THEN TrimEnd(SubSeq(s, 1, Len(s) - 1)) ELSE s

\* String.prototype.trim
Trim(s) == TrimEnd(TrimStart(s))

\* What req.body.prompt can hold: absent, a string, or (a field sent as
\* prompt[], or a JSON body) a value that is not a string.
PromptValues ==
    {[type |-> "undefined", val |-> <<>>], [type |-> "array", val |-> <<>>]}
        \cup {[type |-> "string", val |-> s] : s \in Strings}

\* JavaScript truthiness of req.body.prompt
Truthy(p) == p.type = "array" \/ (p.type = "string" /\ p.val # <<>>)

\* (req.body.prompt || '').trim() throws a TypeError when the operand of
\* .trim is not a string.
PromptThrows(p) == Truthy(p) /\ p.type # "string"

\* const prompt = (req.body.prompt || '').trim();
PromptOf(p) == IF Truthy(p) THEN Trim(p.val) ELSE <<>>

\* Texts the text service can answer with.
ServiceTexts == {<<"x", "x">>, <<"x">>}

\* ------------------------------------------------------------- upload filter
\* The MIME types and original file names a client sends.
Mimes == {"image/png", "text/plain"}
Names == {"a.JPG", "c.exe"}

\* /jpeg|jpg|png|webp/.test(file.mimetype)
MimeMatches(m) == m \in {"image/png"}

\* /\.(jpe?g|png|webp)$/i.test(file.originalname)
ExtMatches(n) == n \in {"a.JPG"}

\* path.extname(file.originalname)
ExtName(n) == IF n = "a.JPG" THEN ".JPG" ELSE ".exe"

\* Mutant of FileFilterAllowed: a filter that lets every file through.
FileFilterAllowed_Everything(m, n) == TRUE

\* const allowed = ... || ...; cb(allowed ? null : new Error(...), allowed)
FileFilterAllowed(m, n) == MimeMatches(m) \/ ExtMatches(n)

\* ---------------------------------------------------------------- file names
\* A file name of STORAGE_DIR, kept as the parts its template joins.
NoName == [prefix |-> "", ts |-> 0, uuid |-> 0, ext |-> "", suffix |-> ""]

\* `${Date.now()}-${uuidv4()}${path.extname(file.originalname)}`
Filename(ts, uuid, orig) ==
    [prefix |-> "", ts |-> ts, uuid |-> uuid, ext |-> ExtName(orig), suffix |-> ""]

\* `preview-${path.basename(file.path)}.webp`
PreviewName(base) == [base EXCEPT !.prefix = "preview-", !.suffix = ".webp"]

\* Mutant of OutFilename: the name without its uuid, `out-${Date.now()}.png`.
OutFilename_TimestampOnly(ts, uuid) ==
    [prefix |-> "out-", ts |-> ts, uuid |-> 0, ext |-> "", suffix |-> ".png"]

\* `out-${Date.now()}-${uuidv4()}.png`
OutFilename(ts, uuid) ==
    [prefix |-> "out-", ts |-> ts, uuid |-> uuid, ext |-> "", suffix |-> ".png"]

\* `/storage/${name}`
StorageUrl(name) == [mount |-> "/storage", file |-> name]

NoUrl == [mount |-> "", file |-> NoName]

\* app.use('/storage', express.static(path.resolve(STORAGE_DIR))): the file of
\* STORAGE_DIR a URL names.
StaticFile(url) == IF url.mount = "/storage" THEN url.file ELSE NoName

\* -------------------------------------------------------------------- state
VARIABLES
    now,        \* Date.now()
    hits,       \* the rate limiter's count for the client in the current window
    nextUuid,   \* uuidv4() never repeats: the next identifier it returns
    storage,    \* STORAGE_DIR: the files in it, each with the request that wrote it
    pc,         \* where each POST /process request is
    req,        \* req.file and req.body.prompt of each request
    loc,        \* the handler's locals of each request
    resp,       \* the response each request received
    trace,      \* the steps each request's handler performed, in order
    fsLog,      \* every file access: operation, name, request, writer of the file
    health      \* the answers to the latest GET /health calls, oldest first

vars == <<now, hits, nextUuid, storage, pc, req, loc, resp, trace, fsLog, health>>

NoFile == [present |-> FALSE, path |-> NoName]

NoPart == [present |-> FALSE, mime |-> "", name |-> ""]

NoPrompt == [type |-> "undefined", val |-> <<>>]

NoReq == [part |-> NoPart, file |-> NoFile, prompt |-> NoPrompt]

NoLoc ==
    [prompt |-> <<>>, previewPath |-> NoName, parsedText |-> <<>>,
     parsedError |-> FALSE, instructions |-> <<>>, imageBase64 |-> "unset",
     outFilename |-> NoName]

NoResp ==
    [status |-> 0, fields |-> {}, success |-> FALSE, parsed |-> <<>>,
     imageUrl |-> NoUrl, previewUrl |-> NoUrl]

\* ------------------------------------------------------------- file system
Exists(name) == \E f \in storage : f.name = name

Writer(name) == IF Exists(name) THEN (CHOOSE f \in storage : f.name = name).by ELSE 0

Access(op, name, r) == [op |-> op, name |-> name, by |-> r, writer |-> Writer(name)]

\* fs.writeFileSync / sharp's toFile: creates the file or replaces its content
WriteFile(name, r) == {f \in storage : f.name # name} \cup {[name |-> name, by |-> r]}

\* fs.unlinkSync
Unlink(name) == {f \in storage : f.name # name}

\* ------------------------------------------------------- the service clients
\* Mutant of ParsePromptResult: a fallback that carries no text.
ParsePromptResult_EmptyFallback(ok, answer, prompt) ==
    IF ok THEN [text |-> answer, error |-> FALSE] ELSE [text |-> <<>>, error |-> TRUE]

\* parsePrompt: the service's response, or in the catch { text: prompt, error }
ParsePromptResult(ok, answer, prompt) ==
    IF ok THEN [text |-> answer, error |-> FALSE] ELSE [text |-> prompt, error |-> TRUE]

\* editImage: the service's response with its payload, or in the catch
\* { imageBase64: null, error }
EditImageResult(ok) == IF ok THEN "data" ELSE "null"

\* Mutant of BufferFromThrows: a decode that takes a null payload as empty.
BufferFromThrows_Never(imageBase64) == FALSE

\* Buffer.from(out.imageBase64, 'base64') throws a TypeError unless it is given
\* a string
BufferFromThrows(imageBase64) == imageBase64 # "data"

\* ------------------------------------------------ POST /process: the handler
\* if (!prompt || !file)
ValidationFails(prompt, file) == prompt = <<>> \/ ~file.present

\* Mutant of Instructions: editImage(file.path, prompt).
Instructions_RawPrompt(parsedText, prompt) == prompt

\* the second argument of editImage(file.path, parsed.text)
Instructions(parsedText, prompt) == parsedText

\* res.status(400).json({ error: 'Prompt and image are required.' })
BadRequest == [NoResp EXCEPT !.status = 400, !.fields = {"error"}]

\* catch (err): res.status(500).json({ error: 'Server error', message: ... })
ServerError == [NoResp EXCEPT !.status = 500, !.fields = {"error", "message"}]

\* Mutant of Success: the response names an output file made anew instead of
\* the one written.
Success_OtherName(parsedText, outFilename, previewPath) ==
    [status |-> 200, fields |-> {"success", "parsed", "imageUrl", "previewUrl"},
     success |-> TRUE, parsed |-> parsedText,
     imageUrl |-> StorageUrl(OutFilename(outFilename.ts, outFilename.uuid + 1)),
     previewUrl |-> StorageUrl(previewPath)]

\* res.json({ success: true, parsed, imageUrl, previewUrl })
Success(parsedText, outFilename, previewPath) ==
    [status |-> 200, fields |-> {"success", "parsed", "imageUrl", "previewUrl"},
     success |-> TRUE, parsed |-> parsedText,
     imageUrl |-> StorageUrl(outFilename), previewUrl |-> StorageUrl(previewPath)]

\* Lines 43-52: the prompt is read and trimmed, the request validated (a staged
\* upload deleted and 400 sent when the prompt or the file is missing), and the
\* preview started: sharp(file.path)...toFile(previewPath) is awaited.
HandlerEntry(r) ==
    /\ pc[r] = "handler"
    /\ LET file == req[r].file
           raw == req[r].prompt
           prompt == PromptOf(raw)
       IN  IF PromptThrows(raw)
           THEN /\ resp' = [resp EXCEPT ![r] = ServerError]
                /\ pc' = [pc EXCEPT ![r] = "done"]
                /\ trace' = [trace EXCEPT ![r] = <<"respond">>]
                /\ UNCHANGED <<storage, fsLog, loc>>
           ELSE IF ValidationFails(prompt, file)
           THEN IF file.present /\ ~Exists(file.path)
                THEN \* unlinkSync throws ENOENT
                     /\ resp' = [resp EXCEPT ![r] = ServerError]
                     /\ pc' = [pc EXCEPT ![r] = "done"]
                     /\ trace' = [trace EXCEPT ![r] = <<"validate", "respond">>]
                     /\ UNCHANGED <<storage, fsLog, loc>>
                ELSE /\ storage' = IF file.present THEN Unlink(file.path) ELSE storage
                     /\ fsLog' = IF file.present
                                 THEN fsLog \cup {Access("unlink", file.path, r)}
                                 ELSE fsLog
                     /\ resp' = [resp EXCEPT ![r] = BadRequest]
                     /\ pc' = [pc EXCEPT ![r] = "done"]
                     /\ trace' = [trace EXCEPT ![r] = <<"validate", "respond">>]
                     /\ loc' = [loc EXCEPT ![r].prompt = prompt]
           ELSE /\ loc' = [loc EXCEPT ![r].prompt = prompt,
                                      ![r].previewPath = PreviewName(file.path)]
                /\ pc' = [pc EXCEPT ![r] = "preview"]
                /\ trace' = [trace EXCEPT ![r] = <<"validate", "previewCall">>]
                /\ UNCHANGED <<storage, fsLog, resp>>
    /\ UNCHANGED <<now, hits, nextUuid, req, health>>

\* Lines 52-55: sharp read the upload and wrote the preview, or failed (the
\* upload is missing or is no image it can decode) and the catch answers 500;
\* after the preview parsePrompt(prompt) is called and awaited.
PreviewDone(r) ==
    /\ pc[r] = "preview"
    /\ \E ok \in BOOLEAN :
        LET file == req[r].file
            readLog == fsLog \cup {Access("read", file.path, r)}
        IN  IF ok /\ Exists(file.path)
            THEN /\ storage' = WriteFile(loc[r].previewPath, r)
                 /\ fsLog' = readLog \cup {Access("write", loc[r].previewPath, r)}
                 /\ pc' = [pc EXCEPT ![r] = "text"]
                 /\ trace' = [trace EXCEPT
                        ![r] = @ \o <<"previewWritten", "textCall">>]
                 /\ UNCHANGED resp
            ELSE /\ fsLog' = readLog
                 /\ resp' = [resp EXCEPT ![r] = ServerError]
                 /\ pc' = [pc EXCEPT ![r] = "done"]
                 /\ trace' = [trace EXCEPT ![r] = @ \o <<"respond">>]
                 /\ UNCHANGED storage
    /\ UNCHANGED <<now, hits, nextUuid, req, loc, health>>

\* Lines 55-58: parsePrompt returned (the service's text, or its fallback), and
\* editImage(file.path, parsed.text) is called and awaited; editImage opens a
\* read stream on the upload.
ParsePromptDone(r) ==
    /\ pc[r] = "text"
    /\ \E ok \in BOOLEAN, answer \in ServiceTexts :
        LET parsed == ParsePromptResult(ok, answer, loc[r].prompt)
        IN  /\ loc' = [loc EXCEPT
                   ![r].parsedText = parsed.text,
                   ![r].parsedError = parsed.error,
                   ![r].instructions = Instructions(parsed.text, loc[r].prompt)]
            /\ fsLog' = fsLog \cup {Access("read", req[r].file.path, r)}
    /\ pc' = [pc EXCEPT ![r] = "image"]
    /\ trace' = [trace EXCEPT ![r] = @ \o <<"textReturn", "imageCall">>]
    /\ UNCHANGED <<now, hits, nextUuid, storage, req, resp, health>>

\* Lines 58-75: editImage returned (the service's payload, or its fallback with
\* a null payload); the output name is made, the payload decoded (a throw goes
\* to the catch: 500), the output written and the success response sent.
EditImageDone(r) ==
    /\ pc[r] = "image"
    /\ \E ok \in BOOLEAN :
        LET imageBase64 == EditImageResult(ok)
            outFilename == OutFilename(now, nextUuid)
        IN  /\ loc' = [loc EXCEPT ![r].imageBase64 = imageBase64,
                                  ![r].outFilename = outFilename]
            /\ IF BufferFromThrows(imageBase64)
               THEN /\ resp' = [resp EXCEPT ![r] = ServerError]
                    /\ trace' = [trace EXCEPT ![r] = @ \o <<"imageReturn", "respond">>]
                    /\ UNCHANGED <<storage, fsLog>>
               ELSE /\ storage' = WriteFile(outFilename, r)
                    /\ fsLog' = fsLog \cup {Access("write", outFilename, r)}
                    /\ resp' = [resp EXCEPT ![r] =
                           Success(loc[r].parsedText, outFilename, loc[r].previewPath)]
                    /\ trace' = [trace EXCEPT
                           ![r] = @ \o <<"imageReturn", "outWritten", "respond">>]
    /\ nextUuid' = nextUuid + 1
    /\ pc' = [pc EXCEPT ![r] = "done"]
    /\ UNCHANGED <<now, hits, req, health>>

\* Time passes: Date.now() is a millisecond clock that does not run backwards.
Tick ==
    /\ now < MaxClock
    /\ now' = now + 1
    /\ UNCHANGED <<hits, nextUuid, storage, pc, req, loc, resp, trace, fsLog, health>>

\* ------------------------------------------ HandlerSpec: the route handler
\* What upload.single('image') hands to the handler: no file, or a file stored
\* in STORAGE_DIR under the name the storage engine's filename gives it (made at
\* time 0 with the request's own uuid), and the prompt field.
Delivered(r) ==
    {[part |-> NoPart, file |-> f, prompt |-> p] :
        f \in {NoFile} \cup {[present |-> TRUE, path |-> Filename(0, r, n)] : n \in Names},
        p \in PromptValues}

HandlerInit ==
    /\ now = 0
    /\ hits = 0
    /\ nextUuid = NReq + 1
    /\ req \in {q \in [Reqs -> UNION {Delivered(r) : r \in Reqs}] :
                    \A r \in Reqs : q[r] \in Delivered(r)}
    /\ storage = {[name |-> req[r].file.path, by |-> r] :
                    r \in {x \in Reqs : req[x].file.present}}
    /\ pc = [r \in Reqs |-> "handler"]
    /\ loc = [r \in Reqs |-> NoLoc]
    /\ resp = [r \in Reqs |-> NoResp]
    /\ trace = [r \in Reqs |-> <<>>]
    /\ fsLog = {}
    /\ health = <<>>

HandlerStep(r) ==
    HandlerEntry(r) \/ PreviewDone(r) \/ ParsePromptDone(r) \/ EditImageDone(r)

HandlerNext == (\E r \in Reqs : HandlerStep(r)) \/ Tick

HandlerSpec == HandlerInit /\ [][HandlerNext]_vars

\* ------------------------------------------------ Spec: the whole server
\* app.use(rateLimit({ windowMs: 60 * 1000, max: 60 })): the request is counted,
\* and refused with 429 once the window's count exceeds max. The counter is
\* kept up to max + 1, where every further request is refused alike.

\* Mutant of RateLimited: a limiter that refuses nothing.
RateLimited_Never(count) == FALSE

\* totalHits > max
RateLimited(count) == count > RateLimitMax

\* the store's increment
CountHit(count) == IF count > RateLimitMax THEN count ELSE count + 1

TooManyRequests == [NoResp EXCEPT !.status = 429]

\* Express's default error handler, reached by next(err) as no error-handling
\* middleware is registered: status err.status || 500, an HTML body.
DefaultError == [NoResp EXCEPT !.status = 500]

\* The storage engine's filename option (line 30): the arrow function builds the
\* name and returns it, and never calls cb; multer reads the name from cb alone.
FilenameCallback(ts, uuid, orig) ==
    [called |-> FALSE, name |-> Filename(ts, uuid, orig)]

\* A POST /process request arrives and runs the global middleware (line 22-25).
PostProcess(r) ==
    /\ pc[r] = "new"
    /\ hits' = CountHit(hits)
    /\ IF RateLimited(hits + 1)
       THEN /\ resp' = [resp EXCEPT ![r] = TooManyRequests]
            /\ pc' = [pc EXCEPT ![r] = "done"]
       ELSE /\ pc' = [pc EXCEPT ![r] = "multer"]
            /\ UNCHANGED resp
    /\ UNCHANGED <<now, nextUuid, storage, req, loc, trace, fsLog, health>>

\* upload.single('image') on a form without an image part: req.body is filled,
\* req.file stays undefined, and the handler is called.
MulterNoFile(r) ==
    /\ pc[r] = "multer"
    /\ \E p \in PromptValues :
        req' = [req EXCEPT ![r] = [part |-> NoPart, file |-> NoFile, prompt |-> p]]
    /\ pc' = [pc EXCEPT ![r] = "handler"]
    /\ UNCHANGED <<now, hits, nextUuid, storage, loc, resp, trace, fsLog, health>>

\* upload.single('image') on a form with an image part the fileFilter refuses:
\* multer passes the filter's Error to next(err), and the default error handler
\* answers.
MulterReject(r) ==
    /\ pc[r] = "multer"
    /\ \E m \in Mimes, n \in Names :
        /\ ~FileFilterAllowed(m, n)
        /\ req' = [req EXCEPT ![r] =
               [part |-> [present |-> TRUE, mime |-> m, name |-> n],
                file |-> NoFile, prompt |-> NoPrompt]]
    /\ resp' = [resp EXCEPT ![r] = DefaultError]
    /\ pc' = [pc EXCEPT ![r] = "done"]
    /\ UNCHANGED <<now, hits, nextUuid, storage, loc, trace, fsLog, health>>

\* upload.single('image') on a form with an image part the fileFilter accepts:
\* the storage engine asks destination, then filename, for the path to write
\* to. Once filename has called back the file is written, req.file set and the
\* handler called; until then the request waits.
MulterStore(r) ==
    /\ pc[r] = "multer"
    /\ \E m \in Mimes, n \in Names, p \in PromptValues :
        /\ FileFilterAllowed(m, n)
        /\ LET part == [present |-> TRUE, mime |-> m, name |-> n]
               got == FilenameCallback(now, nextUuid, n)
           IN  IF got.called
               THEN /\ req' = [req EXCEPT ![r] =
                          [part |-> part,
                           file |-> [present |-> TRUE, path |-> got.name],
                           prompt |-> p]]
                    /\ storage' = WriteFile(got.name, r)
                    /\ fsLog' = fsLog \cup {Access("write", got.name, r)}
                    /\ pc' = [pc EXCEPT ![r] = "handler"]
               ELSE /\ req' = [req EXCEPT ![r] =
                          [part |-> part, file |-> NoFile, prompt |-> p]]
                    /\ pc' = [pc EXCEPT ![r] = "storing"]
                    /\ UNCHANGED <<storage, fsLog>>
    /\ nextUuid' = nextUuid + 1
    /\ UNCHANGED <<now, hits, loc, resp, trace, fsLog, health>>

\* res.json({ status: 'ok', ts: Date.now() })
HealthOk(ts) == [status |-> 200, body |-> "ok", ts |-> ts]

\* the rate limiter's answer
HealthRefused == [status |-> 429, body |-> "", ts |-> 0]

\* The answers to the two latest GET /health calls.
Latest(h) == IF Len(h) > 2 THEN SubSeq(h, Len(h) - 1, Len(h)) ELSE h

\* GET /health, behind the same global middleware (line 25, then line 39).
GetHealth ==
    /\ hits' = CountHit(hits)
    /\ health' = Latest(Append(health,
           IF RateLimited(hits + 1) THEN HealthRefused ELSE HealthOk(now)))
    /\ UNCHANGED <<now, nextUuid, storage, pc, req, loc, resp, trace, fsLog>>

\* The rate limiter's window (windowMs) ends: its counts start again.
WindowReset ==
    /\ now < MaxClock
    /\ hits > 0
    /\ hits' = 0
    /\ now' = now + 1
    /\ UNCHANGED <<nextUuid, storage, pc, req, loc, resp, trace, fsLog, health>>

Init ==
    /\ now = 0
    /\ hits = 0
    /\ nextUuid = 1
    /\ storage = {}
    /\ pc = [r \in Reqs |-> "new"]
    /\ req = [r \in Reqs |-> NoReq]
    /\ loc = [r \in Reqs |-> NoLoc]
    /\ resp = [r \in Reqs |-> NoResp]
    /\ trace = [r \in Reqs |-> <<>>]
    /\ fsLog = {}
    /\ health = <<>>

\* The steps of one POST /process request. No request reaches the handler with
\* req.file set (NoStoredUpload below), so of the handler only HandlerEntry is
\* ever enabled here.
Step(r) ==
    PostProcess(r) \/ MulterNoFile(r) \/ MulterReject(r) \/ MulterStore(r)
        \/ HandlerEntry(r)

Next == (\E r \in Reqs : Step(r)) \/ GetHealth \/ Tick \/ WindowReset

Spec == Init /\ [][Next]_vars

\* The event loop runs every callback that is ready.
FairSpec == Spec /\ \A r \in Reqs : WF_vars(Step(r))

\* In Spec no upload is ever stored and no handler runs with a file.
NoStoredUpload == storage = {} /\ \A r \in Reqs : ~req[r].file.present

\* ==================================================================== claims
\* A request as the claims call it valid: an image part of an allowed type and
\* a prompt that is a string and not empty once trimmed.
ValidPrompt(p) == p.type = "string" /\ Trim(p.val) # <<>>

ValidRequest(r) ==
    /\ req[r].part.present
    /\ MimeMatches(req[r].part.mime)
    /\ ExtMatches(req[r].part.name)
    /\ ValidPrompt(req[r].prompt)

\* C1: a POST /process request with a valid upload and a non-empty prompt
\* eventually receives a response, and when neither service failed the response
\* is 200 with success:true and names an output and a preview that exist.
C1_Claim ==
    \A r \in Reqs :
        ValidRequest(r) ~>
            /\ resp[r].status # 0
            /\ (~loc[r].parsedError /\ loc[r].imageBase64 # "null") =>
                   /\ resp[r].status = 200
                   /\ resp[r].success
                   /\ Exists(StaticFile(resp[r].imageUrl))
                   /\ Exists(StaticFile(resp[r].previewUrl))

\* The files a request wrote that are still in STORAGE_DIR, other than its upload.
Derived(r) == {f \in storage : f.by = r /\ f.name.prefix # ""}

\* The services a request called.
Called(r) == {e \in {"previewCall", "textCall", "imageCall"} :
                \E i \in DOMAIN trace[r] : trace[r][i] = e}

\* The request's prompt is missing or empty once trimmed, or its image is missing.
Incomplete(r) ==
    \/ ~req[r].file.present
    \/ req[r].prompt.type = "undefined"
    \/ req[r].prompt.type = "string" /\ Trim(req[r].prompt.val) = <<>>

\* C2: a request whose prompt is missing or empty after trimming, or whose image
\* is missing, is answered 400, creates no preview and no output, calls no
\* service, and leaves no staged upload behind.
C2_Claim ==
    \A r \in Reqs :
        (pc[r] = "done" /\ Incomplete(r)) =>
            /\ resp[r].status = 400
            /\ Derived(r) = {}
            /\ Called(r) = {}
            /\ ~Exists(req[r].file.path)

\* C3: when the image service failed (editImage returned its fallback, a null
\* payload) the request has ended with 500 {error, message}, has written no
\* output file and has not been answered success:true.
C3_ImageFailure ==
    \A r \in Reqs :
        loc[r].imageBase64 = "null" =>
            /\ pc[r] = "done"
            /\ resp[r].status = 500
            /\ resp[r].fields = {"error", "message"}
            /\ ~resp[r].success
            /\ ~Exists(loc[r].outFilename)
            /\ \A f \in Derived(r) : f.name.prefix # "out-"

C3_Witness ==
    \E r \in Reqs :
        /\ ValidPrompt(req[r].prompt) /\ req[r].file.present
        /\ loc[r].imageBase64 = "null"
        /\ resp[r].status = 500

\* C4: when the text service failed, parsePrompt's result is the trimmed prompt,
\* the image service is called with exactly that text, the request goes on (no
\* response yet while the image call is awaited, and a 500 only after the image
\* service failed too), and a success response carries the trimmed prompt as
\* `parsed`.
C4_TextFailure ==
    \A r \in Reqs :
        loc[r].parsedError =>
            /\ loc[r].parsedText = Trim(req[r].prompt.val)
            /\ loc[r].instructions = Trim(req[r].prompt.val)
            /\ pc[r] \in {"image", "done"}
            /\ pc[r] = "image" => resp[r].status = 0
            /\ pc[r] = "done" =>
                   IF loc[r].imageBase64 = "data"
                   THEN /\ resp[r].status = 200
                        /\ resp[r].success
                        /\ resp[r].parsed = Trim(req[r].prompt.val)
                   ELSE resp[r].status = 500

C4_Witness ==
    \E r \in Reqs :
        /\ loc[r].parsedError
        /\ req[r].prompt.val # Trim(req[r].prompt.val)
        /\ resp[r].status = 200
        /\ resp[r].parsed = Trim(req[r].prompt.val)

\* C5: a request has been answered success:true only if the output file its
\* imageUrl names has been written to storage by that request.
C5_SuccessAfterWrite ==
    \A r \in Reqs :
        resp[r].success =>
            /\ StaticFile(resp[r].imageUrl).prefix = "out-"
            /\ [name |-> StaticFile(resp[r].imageUrl), by |-> r] \in storage
            /\ \E e \in fsLog :
                   e.op = "write" /\ e.by = r /\ e.name = StaticFile(resp[r].imageUrl)

C5_Witness ==
    \E r \in Reqs :
        /\ resp[r].success
        /\ loc[r].parsedError
        /\ Exists(StaticFile(resp[r].imageUrl))

\* The pipeline's steps in order.
Pipeline ==
    <<"validate", "previewCall", "previewWritten", "textCall", "textReturn",
      "imageCall", "imageReturn", "outWritten", "respond">>

\* t is the pipeline cut short: its first k steps, then nothing or the response.
InOrder(t) ==
    \E k \in 0 .. Len(Pipeline) :
        \/ t = SubSeq(Pipeline, 1, k)
        \/ t = SubSeq(Pipeline, 1, k) \o <<"respond">>

Did(r, step) == \E i \in DOMAIN trace[r] : trace[r][i] = step

\* C9: a request's steps occur in the order validate, preview, text call, image
\* call, output write, respond; the preview is in storage before the text
\* service is called, the image service is called with the text the text call
\* returned, the response is the last step, and a request that failed performed
\* no later step.
C9_StrictOrder ==
    \A r \in Reqs :
        /\ InOrder(trace[r])
        /\ Did(r, "respond") <=> pc[r] = "done"
        /\ Did(r, "respond") => trace[r][Len(trace[r])] = "respond"
        /\ Did(r, "textCall") => Exists(loc[r].previewPath)
        /\ Did(r, "imageCall") => loc[r].instructions = loc[r].parsedText
        /\ Did(r, "outWritten") => Exists(loc[r].outFilename)

C9_Witness ==
    \E r \in Reqs :
        /\ trace[r] = Pipeline
        /\ ~loc[r].parsedError
        /\ loc[r].parsedText # loc[r].prompt

\* C10: no file is written under a name that is already in storage (so the
\* names of uploads, previews and outputs are pairwise distinct), every file a
\* request reads or deletes was written by that request, and the only file a
\* request deletes is its own upload, when it answers 400.
C10_NoSharing ==
    /\ \A e \in fsLog :
           /\ e.op = "write" => e.writer = 0
           /\ e.op \in {"read", "unlink"} => e.writer = e.by
           /\ e.op = "unlink" =>
                  /\ e.name = req[e.by].file.path
                  /\ resp[e.by].status = 400
    /\ \A f \in storage :
           f.name.prefix = "" => req[f.by].file.present /\ req[f.by].file.path = f.name
    /\ \A r1, r2 \in Reqs :
           (r1 # r2 /\ req[r1].file.present /\ req[r2].file.present) =>
               req[r1].file.path # req[r2].file.path

C10_Witness ==
    \E r1, r2 \in Reqs :
        /\ r1 # r2
        /\ resp[r1].success /\ resp[r2].success
        /\ loc[r1].outFilename.ts = loc[r2].outFilename.ts
        /\ Cardinality(storage) = 3 * NReq

\* The upload filter refused the request's image part before the pipeline ran:
\* the request ended with the filter's error, nothing of it is in storage, and
\* its handler performed no step and touched no file.
RejectedAtUpload(r) ==
    /\ pc[r] = "done"
    /\ resp[r].status >= 400
    /\ ~req[r].file.present
    /\ trace[r] = <<>>
    /\ \A f \in storage : f.by # r
    /\ \A e \in fsLog : e.by # r

\* C6: an upload whose MIME type or whose file name extension is outside
\* {jpg, jpeg, png, webp} is rejected by the upload filter before the pipeline
\* runs: never staged, the handler never run, no preview or output created.
C6_Claim ==
    \A r \in Reqs :
        (req[r].part.present
            /\ (~MimeMatches(req[r].part.mime) \/ ~ExtMatches(req[r].part.name)))
        => RejectedAtUpload(r)

\* C6 as amended: an upload whose MIME type and file name extension are both
\* outside {jpg, jpeg, png, webp} is rejected by the upload filter before the
\* pipeline runs.
C6_BothOutside ==
    \A r \in Reqs :
        (req[r].part.present
            /\ ~MimeMatches(req[r].part.mime) /\ ~ExtMatches(req[r].part.name))
        => RejectedAtUpload(r)

C6_Witness ==
    \E r \in Reqs :
        /\ req[r].part.present
        /\ ~MimeMatches(req[r].part.mime) /\ ~ExtMatches(req[r].part.name)
        /\ RejectedAtUpload(r)

\* C7: a POST /process refused at upload time because the file type is not
\* allowed is answered 400 with an {error} body, not 500.
C7_Claim ==
    \A r \in Reqs :
        (req[r].part.present
            /\ ~FileFilterAllowed(req[r].part.mime, req[r].part.name)
            /\ resp[r].status # 0)
        => (resp[r].status = 400 /\ "error" \in resp[r].fields)

\* C8: every GET /health is answered 200 {status:"ok", ts}, also after more
\* than 60 requests in one window, and of two successive calls the later ts is
\* strictly greater.
C8_Claim ==
    /\ \A i \in DOMAIN health : health[i].status = 200 /\ health[i].body = "ok"
    /\ Len(health) = 2 => health[2].ts > health[1].ts

\* C8 as amended: a GET /health that is among the first 60 requests of the
\* client's window is answered 200 {status:"ok", ts}, a later one of the window
\* is refused with 429, and of two successive answered calls the later ts is
\* not smaller than the earlier.
C8_HealthUnderLimit ==
    [][GetHealth =>
        LET answer == health'[Len(health')]
        IN  /\ IF hits < RateLimitMax
               THEN answer.status = 200 /\ answer.body = "ok" /\ answer.ts = now
               ELSE answer.status = 429
            /\ (health # <<>> /\ health[Len(health)].status = 200
                    /\ answer.status = 200)
               => answer.ts >= health[Len(health)].ts]_vars

C8_Witness ==
    /\ hits = RateLimitMax + 1
    /\ Len(health) = 2
    /\ health[1].status = 200
    /\ health[2].status = 429
    /\ \E r \in Reqs : resp[r].status = 400

====
